---------------------------- MODULE Spec2Model ----------------------------
(***************************************************************************)
(* Model of homework.py: the fitness-tracker module that turns sensor      *)
(* packages (workout code, positional numbers) into Training records,      *)
(* computes distance, mean speed and spent calories, and prints one        *)
(* report line per package.                                                *)
(*                                                                         *)
(* Numbers.  The program computes on Python numbers (ints in the packages, *)
(* floats after the first true division).  The model computes on exact     *)
(* rationals <<n, d>> in lowest terms with d > 0; the binary rounding of   *)
(* IEEE doubles is not represented.  The one place where the code itself   *)
(* rounds, '%.3f', is modelled by Fmt3; at an exact decimal tie the double *)
(* actually held may lie on either side, so both renderings are allowed.   *)
(*                                                                         *)
(* Exceptions.  Every method returns a result [exc, val]: exc = "none" and *)
(* the value, or the name of the Python exception that propagates.         *)
(***************************************************************************)
EXTENDS Integers, Sequences, FiniteSets

VARIABLES
    packages,   \* the list iterated by the __main__ loop
    i,          \* 1-based position of the loop in packages
    pc,         \* "read" | "main" | "done" | "aborted"
    training,   \* the module-level name `training` (Unbound before the first bind)
    info,       \* the InfoMessage built by the last call of main
    output,     \* the lines written by print, oldest first
    error       \* the exception that ended the run, or "none"

vars == <<packages, i, pc, training, info, output, error>>

---------------------------------------------------------------------------
(* Exact rational arithmetic.                                              *)

Abs(n) == IF n < 0 THEN -n ELSE n

RECURSIVE GCD(_, _)
GCD(a, b) == IF b = 0 THEN a ELSE GCD(b, a % b)

\* n/d in lowest terms, d # 0.
Rat(n, d) ==
    LET s == IF d < 0 THEN -1 ELSE 1
        g == GCD(Abs(n), Abs(d))
    IN  <<(s * n) \div g, (s * d) \div g>>

Num(n) == <<n, 1>>
Zero == Num(0)

Add(a, b) == Rat(a[1] * b[2] + b[1] * a[2], a[2] * b[2])
Sub(a, b) == Rat(a[1] * b[2] - b[1] * a[2], a[2] * b[2])
Mul(a, b) == Rat(a[1] * b[1], a[2] * b[2])
\* a / b for b # 0; the callers raise ZeroDivisionError before dividing by 0.
Div(a, b) == Rat(a[1] * b[2], a[2] * b[1])
Less(a, b) == a[1] * b[2] < b[1] * a[2]
\* Python's a // b on numbers, b # 0: the floor of the quotient.
FloorDiv(a, b) == LET q == Div(a, b) IN Num(q[1] \div q[2])

Ok(v) == [exc |-> "none", val |-> v]
Raise(e) == [exc |-> e, val |-> Zero]

---------------------------------------------------------------------------
(* Class attributes.                                                       *)

M_IN_KM == 1000
MINS_IN_HOUR == 60
Training_LEN_STEP == Rat(65, 100)
Swimming_LEN_STEP == Rat(138, 100)
Running_COEFF_CALORIE_1 == 18
Running_COEFF_CALORIE_2 == 20
SportsWalking_COEFF_CALORIE_1 == Rat(35, 1000)
SportsWalking_COEFF_CALORIE_2 == Rat(29, 1000)
Swimming_COEFF_CALORIE_1 == Rat(11, 10)
Swimming_COEFF_CALORIE_2 == 2

\* Mutant: the override of Swimming is not seen.
LEN_STEP_NoOverride(self) == Training_LEN_STEP

\* self.LEN_STEP: Swimming overrides the attribute of Training.
LEN_STEP(self) ==
    IF self.cls = "Swimming" THEN Swimming_LEN_STEP ELSE Training_LEN_STEP

---------------------------------------------------------------------------
(* Training and its subclasses.  A record is its instance attributes plus  *)
(* cls, the class the instance was made from.                              *)

Training_init(cls, action, duration, weight) ==
    [cls |-> cls, action |-> action, duration_hours |-> duration,
     weight |-> weight]

SportsWalking_init(action, duration, weight, height) ==
    [cls |-> "SportsWalking", action |-> action, duration_hours |-> duration,
     weight |-> weight, height |-> height]

\* Mutant: the two pool parameters are bound the other way round.
Swimming_init_Swapped(action, duration, weight, length_pool, count_pool) ==
    [cls |-> "Swimming", action |-> action, duration_hours |-> duration,
     weight |-> weight, length_pool |-> count_pool,
     count_pool |-> length_pool]

Swimming_init(action, duration, weight, length_pool, count_pool) ==
    [cls |-> "Swimming", action |-> action, duration_hours |-> duration,
     weight |-> weight, length_pool |-> length_pool,
     count_pool |-> count_pool]

\* Mutant: a swim's distance is taken from the pool.
get_distance_FromPool(self) ==
    IF self.cls = "Swimming"
    THEN Div(Mul(self.length_pool, self.count_pool), Num(M_IN_KM))
    ELSE Div(Mul(self.action, LEN_STEP(self)), Num(M_IN_KM))

\* Training.get_distance, inherited unchanged by the three subclasses.
get_distance(self) ==
    Div(Mul(self.action, LEN_STEP(self)), Num(M_IN_KM))

Training_get_mean_speed(self) ==
    LET distance == get_distance(self)
    IN  IF self.duration_hours = Zero
        THEN Raise("ZeroDivisionError")
        ELSE Ok(Div(distance, self.duration_hours))

\* Mutant: Swimming does not override get_mean_speed.
Swimming_get_mean_speed_FromStrokes(self) ==
    IF self.duration_hours = Zero
    THEN Raise("ZeroDivisionError")
    ELSE Ok(Div(Div(Mul(self.action, Swimming_LEN_STEP), Num(M_IN_KM)),
                self.duration_hours))

Swimming_get_mean_speed(self) ==
    IF self.duration_hours = Zero
    THEN Raise("ZeroDivisionError")
    ELSE Ok(Div(Div(Mul(self.length_pool, self.count_pool), Num(M_IN_KM)),
                self.duration_hours))

\* self.get_mean_speed(): only Swimming overrides the method.
get_mean_speed(self) ==
    IF self.cls = "Swimming"
    THEN Swimming_get_mean_speed(self)
    ELSE Training_get_mean_speed(self)

Training_get_spent_calories(self) == Raise("NotImplementedError")

\* Mutant: negative calories are clamped at zero.
Running_get_spent_calories_Clamped(self) ==
    LET mean_speed == Training_get_mean_speed(self)
        duration_min == Mul(self.duration_hours, Num(MINS_IN_HOUR))
        calories ==
            Mul(Div(Mul(Sub(Mul(Num(Running_COEFF_CALORIE_1), mean_speed.val),
                            Num(Running_COEFF_CALORIE_2)),
                        self.weight),
                    Num(M_IN_KM)),
                duration_min)
    IN  IF mean_speed.exc # "none"
        THEN mean_speed
        ELSE IF Less(calories, Zero) THEN Ok(Zero) ELSE Ok(calories)

Running_get_spent_calories(self) ==
    LET mean_speed == Training_get_mean_speed(self)
        duration_min == Mul(self.duration_hours, Num(MINS_IN_HOUR))
    IN  IF mean_speed.exc # "none"
        THEN mean_speed
        ELSE Ok(Mul(Div(Mul(Sub(Mul(Num(Running_COEFF_CALORIE_1),
                                    mean_speed.val),
                                Num(Running_COEFF_CALORIE_2)),
                            self.weight),
                        Num(M_IN_KM)),
                    duration_min))

\* Mutant: true division in place of floor division.
SportsWalking_get_spent_calories_TrueDiv(self) ==
    LET mean_speed == Training_get_mean_speed(self)
        duration_min == Mul(self.duration_hours, Num(MINS_IN_HOUR))
    IN  IF mean_speed.exc # "none"
        THEN mean_speed
        ELSE IF self.height = Zero
        THEN Raise("ZeroDivisionError")
        ELSE Ok(Add(Mul(Mul(SportsWalking_COEFF_CALORIE_1, self.weight),
                        duration_min),
                    Mul(Div(Mul(mean_speed.val, mean_speed.val), self.height),
                        Mul(Mul(SportsWalking_COEFF_CALORIE_2, self.weight),
                            duration_min))))

SportsWalking_get_spent_calories(self) ==
    LET mean_speed == Training_get_mean_speed(self)
        duration_min == Mul(self.duration_hours, Num(MINS_IN_HOUR))
    IN  IF mean_speed.exc # "none"
        THEN mean_speed
        ELSE IF self.height = Zero
        THEN Raise("ZeroDivisionError")
        ELSE Ok(Mul(Add(Mul(SportsWalking_COEFF_CALORIE_1, self.weight),
                        Mul(Mul(FloorDiv(Mul(mean_speed.val, mean_speed.val),
                                         self.height),
                                SportsWalking_COEFF_CALORIE_2),
                            self.weight)),
                    duration_min))

Swimming_get_spent_calories(self) ==
    LET mean_speed == Swimming_get_mean_speed(self)
    IN  IF mean_speed.exc # "none"
        THEN mean_speed
        ELSE Ok(Mul(Mul(Add(mean_speed.val, Swimming_COEFF_CALORIE_1),
                        Num(Swimming_COEFF_CALORIE_2)),
                    self.weight))

\* self.get_spent_calories(): resolved on the class of the instance; the
\* base class keeps the raising placeholder.
get_spent_calories(self) ==
    CASE self.cls = "Running" -> Running_get_spent_calories(self)
      [] self.cls = "SportsWalking" -> SportsWalking_get_spent_calories(self)
      [] self.cls = "Swimming" -> Swimming_get_spent_calories(self)
      [] OTHER -> Training_get_spent_calories(self)

\* The InfoMessage dataclass instance.
InfoMessage(training_type, duration, distance, speed, calories) ==
    [training_type |-> training_type, duration |-> duration,
     distance |-> distance, speed |-> speed, calories |-> calories]

\* The arguments are evaluated left to right; the first exception propagates.
show_training_info(self) ==
    LET distance == get_distance(self)
        speed == get_mean_speed(self)
        calories == get_spent_calories(self)
    IN  IF speed.exc # "none" THEN speed
        ELSE IF calories.exc # "none" THEN calories
        ELSE Ok(InfoMessage(self.cls, self.duration_hours, distance,
                            speed.val, calories.val))

\* '%.3f' % x: the thousandths that can be printed for x, found by long
\* division to three decimal places and rounding on the remainder.
Fmt3(x) ==
    LET whole == x[1] \div x[2]
        r0 == x[1] - whole * x[2]
        d1 == (r0 * 10) \div x[2]
        r1 == r0 * 10 - d1 * x[2]
        d2 == (r1 * 10) \div x[2]
        r2 == r1 * 10 - d2 * x[2]
        d3 == (r2 * 10) \div x[2]
        r3 == r2 * 10 - d3 * x[2]
        fl == whole * 1000 + d1 * 100 + d2 * 10 + d3
    IN  IF 2 * r3 < x[2] THEN {fl}
        ELSE IF 2 * r3 > x[2] THEN {fl + 1}
        ELSE {fl, fl + 1}

\* InfoMessage.get_message: the template is fixed, so a line is its five
\* substituted fields, the numeric ones as printed thousandths.
get_message(self) ==
    [training_type : {self.training_type},
     duration_hours : Fmt3(self.duration),
     distance : Fmt3(self.distance),
     speed : Fmt3(self.speed),
     calories : Fmt3(self.calories)]

---------------------------------------------------------------------------
(* read_package.                                                           *)

\* Mutant: RUN is mapped to the base class.
training_codes_Base ==
    [code \in {"SWM", "RUN", "WLK"} |->
        CASE code = "SWM" -> "Swimming"
          [] code = "RUN" -> "Training"
          [] code = "WLK" -> "SportsWalking"]

training_codes ==
    [code \in {"SWM", "RUN", "WLK"} |->
        CASE code = "SWM" -> "Swimming"
          [] code = "RUN" -> "Running"
          [] code = "WLK" -> "SportsWalking"]

\* The number of positional parameters of cls.__init__ besides self.
Arity(cls) ==
    CASE cls = "Swimming" -> 5
      [] cls = "SportsWalking" -> 4
      [] OTHER -> 3

\* cls(*data): Python binds the list to the parameters by position and
\* raises TypeError when their numbers differ.
Construct(cls, data) ==
    IF Len(data) # Arity(cls) THEN Raise("TypeError")
    ELSE CASE cls = "Swimming" ->
                Ok(Swimming_init(data[1], data[2], data[3], data[4], data[5]))
           [] cls = "SportsWalking" ->
                Ok(SportsWalking_init(data[1], data[2], data[3], data[4]))
           [] OTHER ->
                Ok(Training_init(cls, data[1], data[2], data[3]))

\* The class selected for a code; the subscript raises KeyError itself.
Lookup(workout_type) ==
    IF workout_type \in DOMAIN training_codes
    THEN Ok(training_codes[workout_type])
    ELSE Raise("KeyError")

read_package(workout_type, data) ==
    LET cls == Lookup(workout_type)
    IN  IF cls.exc # "none" THEN cls ELSE Construct(cls.val, data)

---------------------------------------------------------------------------
(* Inputs.                                                                 *)

MaxPackages == 2

Package(workout_type, data) == [workout_type |-> workout_type, data |-> data]

\* The literal list of the __main__ block.
MainPackages ==
    << Package("SWM", <<Num(720), Num(1), Num(80), Num(25), Num(40)>>),
       Package("RUN", <<Num(15000), Num(1), Num(75)>>),
       Package("WLK", <<Num(9000), Num(1), Num(75), Num(180)>>) >>

\* Packages combined into lists: the three of __main__, and packages with
\* an unknown code, too few or too many numbers, a zero duration or
\* height, a negative weight, a slow run.
ListPackages ==
    { MainPackages[k] : k \in 1..3 } \cup
    { Package("XYZ", <<Num(1), Num(2), Num(3)>>),
      Package("RUN", <<Num(1), Num(2)>>),
      Package("RUN", <<Num(15000), Num(1), Num(75), Num(180)>>),
      Package("WLK", <<Num(9000), Num(1), Num(75)>>),
      Package("SWM", <<Num(720), Num(1), Num(80), Num(25)>>),
      Package("RUN", <<Num(15000), Num(0), Num(75)>>),
      Package("WLK", <<Num(9000), Num(1), Num(75), Num(0)>>),
      Package("SWM", <<Num(720), Num(0), Num(80), Num(25), Num(40)>>),
      Package("WLK", <<Num(9000), Num(1), Num(-75), Num(180)>>),
      Package("RUN", <<Num(720), Num(1), Num(75)>>) }

ActionVals == { Num(0), Num(720), Num(2000), Num(9000), Num(15000), Num(30000) }
DurationVals == { Num(0), Rat(1, 2), Num(1), Rat(117, 100), Num(2) }
WeightVals == { Num(-75), Num(0), Num(75), Num(80) }
HeightVals == { Num(-180), Num(0), Num(20), Num(180) }
LengthPoolVals == { Num(0), Num(25), Num(50) }
CountPoolVals == { Num(0), Num(1), Num(40) }

\* Well-formed packages over the value sets, processed one per run.
SinglePackages ==
    { Package("RUN", <<a, d, w>>) :
        a \in ActionVals, d \in DurationVals, w \in WeightVals } \cup
    { Package("WLK", <<a, d, w, h>>) :
        a \in ActionVals, d \in DurationVals, w \in WeightVals,
        h \in HeightVals } \cup
    { Package("SWM", <<a, d, w, l, c>>) :
        a \in ActionVals, d \in DurationVals, w \in WeightVals,
        l \in LengthPoolVals, c \in CountPoolVals }

RECURSIVE ListsUpTo(_, _)
ListsUpTo(S, n) ==
    IF n = 0 THEN { <<>> }
    ELSE LET shorter == ListsUpTo(S, n - 1)
         IN  shorter \cup { Append(l, x) : l \in shorter, x \in S }

InputLists ==
    ListsUpTo(ListPackages, MaxPackages) \cup { <<p>> : p \in SinglePackages }

---------------------------------------------------------------------------
(* The __main__ loop.                                                      *)

Unbound == [cls |-> "Unbound"]
NoInfo == [training_type |-> "NoInfo"]

Init ==
    /\ packages \in InputLists
    /\ i = 1
    /\ pc = "read"
    /\ training = Unbound
    /\ info = NoInfo
    /\ output = <<>>
    /\ error = "none"

\* training = read_package(workout_type, data); an exception leaves the
\* name as it was and ends the run.
ReadPackage ==
    /\ pc = "read"
    /\ i <= Len(packages)
    /\ LET r == read_package(packages[i].workout_type, packages[i].data)
       IN  IF r.exc = "none"
           THEN /\ training' = r.val
                /\ pc' = "main"
                /\ UNCHANGED error
           ELSE /\ pc' = "aborted"
                /\ error' = r.exc
                /\ UNCHANGED training
    /\ UNCHANGED <<packages, i, info, output>>

\* Mutant: main swallows the exception and the loop goes on.
Main_Swallow ==
    /\ pc = "main"
    /\ LET r == show_training_info(training)
       IN  IF r.exc = "none"
           THEN /\ info' = r.val
                /\ \E line \in get_message(r.val) :
                       output' = Append(output, line)
           ELSE UNCHANGED <<info, output>>
    /\ i' = i + 1
    /\ pc' = "read"
    /\ UNCHANGED <<packages, training, error>>

\* main(training): build the InfoMessage and print its message; the loop
\* then moves to the next package.
Main ==
    /\ pc = "main"
    /\ LET r == show_training_info(training)
       IN  IF r.exc = "none"
           THEN /\ info' = r.val
                /\ \E line \in get_message(r.val) :
                       output' = Append(output, line)
                /\ i' = i + 1
                /\ pc' = "read"
                /\ UNCHANGED error
           ELSE /\ pc' = "aborted"
                /\ error' = r.exc
                /\ UNCHANGED <<info, output, i>>
    /\ UNCHANGED <<packages, training>>

\* The for loop is exhausted.
Finish ==
    /\ pc = "read"
    /\ i > Len(packages)
    /\ pc' = "done"
    /\ UNCHANGED <<packages, i, training, info, output, error>>

Next == ReadPackage \/ Main \/ Finish

Spec == Init /\ [][Next]_vars

---------------------------------------------------------------------------
(* Vocabulary of the properties.                                           *)

Pos(x) == Less(Zero, x)
KnownCodes == {"SWM", "RUN", "WLK"}

\* The package the loop is at (being read, being reported, or failed).
AtPackage == i <= Len(packages)
Code == packages[i].workout_type
Data == packages[i].data

\* main has returned for packages[i - 1]: training is its record and info
\* the InfoMessage made from it.
Reported == pc \in {"read", "done"} /\ i > 1

\* What `training` was bound to before the read of packages[i].
Previous(k) ==
    IF k = 1 THEN Unbound
    ELSE read_package(packages[k - 1].workout_type, packages[k - 1].data).val

ParamCount(code) ==
    CASE code = "RUN" -> 3 [] code = "WLK" -> 4 [] code = "SWM" -> 5

VariantOf(code) ==
    CASE code = "RUN" -> "Running"
      [] code = "WLK" -> "SportsWalking"
      [] code = "SWM" -> "Swimming"

---------------------------------------------------------------------------
\* C1 (as claimed): a package whose code is not SWM, RUN or WLK ends the
\* run with the named error UnrecognizedWorkoutType, raised by a validation
\* of the code, and binds no record.
C1_UnknownCodeNamedError ==
    (pc = "aborted" /\ Code \notin KnownCodes)
        => (error = "UnrecognizedWorkoutType" /\ training = Previous(i))

\* What the code does there: the dictionary subscript raises KeyError.
C1_UnknownCodeKeyError ==
    (AtPackage /\ Code \notin KnownCodes)
        => /\ pc # "main"
           /\ pc = "aborted" => (error = "KeyError" /\ training = Previous(i))

---------------------------------------------------------------------------
\* The positional part of C2: a recognized code with exactly the variant's
\* number of parameters is never refused for its arity, and the record
\* bound is of the matching variant with the parameters in order.
C2_Positional ==
    (AtPackage /\ Code \in KnownCodes /\ Len(Data) = ParamCount(Code))
        => /\ ~(pc = "aborted" /\ error \in {"TypeError", "ArityMismatch"})
           /\ pc = "main" =>
                /\ training.cls = VariantOf(Code)
                /\ training.action = Data[1]
                /\ training.duration_hours = Data[2]
                /\ training.weight = Data[3]
                /\ Code = "WLK" => training.height = Data[4]
                /\ Code = "SWM" => /\ training.length_pool = Data[4]
                                   /\ training.count_pool = Data[5]
                /\ DOMAIN training =
                      {"cls", "action", "duration_hours", "weight"} \cup
                      (CASE Code = "WLK" -> {"height"}
                         [] Code = "SWM" -> {"length_pool", "count_pool"}
                         [] OTHER -> {})

---------------------------------------------------------------------------
\* A positive number is required of duration and weight, of the height of
\* a walk and of the pool length of a swim.
InvalidData(code, data) ==
    \/ ~Pos(data[2])
    \/ ~Pos(data[3])
    \/ code = "WLK" /\ ~Pos(data[4])
    \/ code = "SWM" /\ ~Pos(data[4])

\* C3 (as claimed): a package with a non-positive duration, weight, height
\* or pool length is rejected with InvalidInput when the record is
\* constructed: no record is bound and no metric is computed.
C3_InvalidInputRejected ==
    (AtPackage /\ Code \in KnownCodes /\ Len(Data) = ParamCount(Code)
       /\ InvalidData(Code, Data))
        => /\ pc # "main"
           /\ pc = "aborted" => error = "InvalidInput"

\* What the code does with a zero duration: the record is constructed and
\* the division in get_mean_speed raises ZeroDivisionError.
C3_ZeroDurationReachesDivision ==
    (pc = "aborted" /\ Code \in KnownCodes /\ Len(Data) = ParamCount(Code)
       /\ Data[2] = Zero)
        => (error = "ZeroDivisionError" /\ training.duration_hours = Zero)

---------------------------------------------------------------------------
\* A report was made for a Swimming record with positive duration, weight
\* and pool length and non-negative action and pool count.
SwimmingReported ==
    /\ Reported
    /\ training.cls = "Swimming"
    /\ Pos(training.duration_hours) /\ Pos(training.weight)
    /\ Pos(training.length_pool)
    /\ ~Less(training.count_pool, Zero) /\ ~Less(training.action, Zero)

PoolDistance(t) == Div(Mul(t.length_pool, t.count_pool), Num(1000))
StrokeDistance(t) == Div(Mul(t.action, Rat(138, 100)), Num(1000))

Scenario1 ==
    [cls |-> "Swimming", action |-> Num(720), duration_hours |-> Num(1),
     weight |-> Num(80), length_pool |-> Num(25), count_pool |-> Num(40)]

---------------------------------------------------------------------------
\* C5: for a valid Swimming record the reported mean speed is
\* length_pool * count_pool / 1000 / duration_hours and the reported
\* calories are (mean speed + 1.1) * 2 * weight, and a record that differs
\* only in action gets the same mean speed and the same calories.
C5_SwimIndependentOfAction ==
    SwimmingReported =>
        /\ info.speed = Div(PoolDistance(training), training.duration_hours)
        /\ info.calories =
              Mul(Mul(Add(info.speed, Rat(11, 10)), Num(2)), training.weight)
        /\ \A a \in ActionVals :
              LET other == [training EXCEPT !.action = a]
              IN  /\ get_mean_speed(other) = Ok(info.speed)
                  /\ get_spent_calories(other) = Ok(info.calories)

\* A report was made for a swim with a nonzero stroke count and a nonzero
\* pool distance that another stroke count would have to match.
C5_Witness ==
    /\ SwimmingReported
    /\ training.action = Num(720) /\ training.count_pool = Num(40)
    /\ training.length_pool = Num(50) /\ training.duration_hours = Num(2)

---------------------------------------------------------------------------
FloorRange == 200

WalkingReported ==
    /\ Reported
    /\ training.cls = "SportsWalking"
    /\ Pos(training.duration_hours) /\ Pos(training.weight)
    /\ Pos(training.height) /\ ~Less(training.action, Zero)

\* The walking formula with q in place of speed^2 // height.
WalkCalories(t, q) ==
    LET minutes == Mul(t.duration_hours, Num(60))
    IN  Add(Mul(Mul(Rat(35, 1000), t.weight), minutes),
            Mul(q, Mul(Mul(Rat(29, 1000), t.weight), minutes)))

SpeedSquaredOverHeight == Div(Mul(info.speed, info.speed), training.height)

Scenario3 ==
    [cls |-> "SportsWalking", action |-> Num(9000), duration_hours |-> Num(1),
     weight |-> Num(75), height |-> Num(180)]

\* C6: for a valid Walking record the calories are
\* (0.035 * weight + k * 0.029 * weight) * duration_hours * 60 with k the
\* integer such that k <= speed^2 / height < k + 1; when speed^2 < height
\* the second term is 0 (WLK [9000, 1, 75, 180] gives 157.5), and when
\* speed^2 / height is not an integer the result differs from the one of
\* real division.
C6_WalkFloorDivision ==
    WalkingReported =>
        LET q == SpeedSquaredOverHeight
        IN  /\ \E k \in 0..FloorRange :
                  /\ ~Less(q, Num(k)) /\ Less(q, Num(k + 1))
                  /\ info.calories = WalkCalories(training, Num(k))
            /\ Less(Mul(info.speed, info.speed), training.height) =>
                  info.calories =
                      Mul(Mul(Rat(35, 1000), training.weight),
                          Mul(training.duration_hours, Num(60)))
            /\ training = Scenario3 => info.calories = Rat(1575, 10)
            /\ q[2] # 1 => info.calories # WalkCalories(training, q)

\* A walk was reported whose speed^2 / height is above 1 and not an integer.
C6_Witness ==
    /\ WalkingReported
    /\ Less(Num(1), SpeedSquaredOverHeight)
    /\ SpeedSquaredOverHeight[2] # 1

---------------------------------------------------------------------------
Stride(cls) == IF cls = "Swimming" THEN Rat(138, 100) ELSE Rat(65, 100)

Scenario2 ==
    [cls |-> "Running", action |-> Num(15000), duration_hours |-> Num(1),
     weight |-> Num(75)]

\* C7: get_distance of every record is action * len_step / 1000 with
\* len_step 0.65 for Running and Walking and 1.38 for Swimming, and this is
\* the distance reported; for Running and Walking the mean speed is that
\* distance divided by duration_hours (RUN [15000, 1, 75]: 9.75 and 9.75).
C7_DistanceByStride ==
    /\ pc = "main" =>
          get_distance(training)
              = Div(Mul(training.action, Stride(training.cls)), Num(1000))
    /\ Reported =>
          /\ info.distance
                = Div(Mul(training.action, Stride(training.cls)), Num(1000))
          /\ training.cls \in {"Running", "SportsWalking"} =>
                info.speed = Div(info.distance, training.duration_hours)
          /\ training = Scenario2 =>
                (info.distance = Rat(975, 100) /\ info.speed = Rat(975, 100))

\* A swim and a run with the same nonzero action were both reported, one
\* after the other, with different distances.
C7_Witness ==
    /\ Reported /\ training = Scenario2 /\ i = 3
    /\ output[1].training_type = "Swimming" /\ output[1].distance = 994
    /\ output[2].distance = 9750

---------------------------------------------------------------------------
\* The outcome of one package taken alone: the exception that ends its
\* processing ("none" if it is reported) and the lines print may write.
ExceptionOf(p) ==
    LET r == read_package(p.workout_type, p.data)
    IN  IF r.exc # "none" THEN r.exc ELSE show_training_info(r.val).exc

LinesOf(p) ==
    get_message(
        show_training_info(read_package(p.workout_type, p.data).val).val)

OutputInOrder ==
    /\ Len(output) = i - 1
    /\ \A j \in 1..Len(output) :
          ExceptionOf(packages[j]) = "none" /\ output[j] \in LinesOf(packages[j])
    /\ pc = "done" => (Len(output) = Len(packages) /\ error = "none")
    /\ pc = "aborted" =>
          /\ AtPackage
          /\ ExceptionOf(packages[i]) # "none"
          /\ error = ExceptionOf(packages[i])
    /\ error # "none" => pc = "aborted"

\* C8: the run prints one line per package in the order of the list; when
\* package k fails the output is the lines of packages 1..k-1, the run
\* stops there with the exception of package k, and nothing is printed,
\* retried or resumed afterwards.
C8_OneLinePerPackageAbortOnFailure ==
    /\ []OutputInOrder
    /\ [][pc # "aborted"]_vars

\* The second package failed after the line of the first was printed.
C8_Witness ==
    /\ pc = "aborted" /\ i = 2 /\ Len(packages) = 2
    /\ output = <<CHOOSE l \in LinesOf(packages[1]) : TRUE>>

---------------------------------------------------------------------------
\* C9: for a recognized code and the right number of parameters the record
\* bound is a Running, SportsWalking or Swimming (the one of the code),
\* its calories come from that variant's formula, and the run never ends
\* with the NotImplementedError of the base class.
C9_BaseCaloriesUnreachable ==
    /\ error # "NotImplementedError"
    /\ pc = "main" =>
          /\ Code \in KnownCodes /\ Len(Data) = ParamCount(Code)
          /\ training.cls \in {"Running", "SportsWalking", "Swimming"}
          /\ training.cls = VariantOf(Code)
          /\ get_spent_calories(training).exc # "NotImplementedError"
    /\ Reported =>
          Ok(info.calories) =
              CASE training.cls = "Running" ->
                      Running_get_spent_calories(training)
                [] training.cls = "SportsWalking" ->
                      SportsWalking_get_spent_calories(training)
                [] training.cls = "Swimming" ->
                      Swimming_get_spent_calories(training)

\* Two records of different variants were reported in one run.
C9_Witness ==
    /\ pc = "done" /\ Len(output) = 2
    /\ output[1].training_type = "Running"
    /\ output[2].training_type = "SportsWalking"

---------------------------------------------------------------------------
RunningReported ==
    /\ Reported
    /\ training.cls = "Running"
    /\ Pos(training.duration_hours) /\ Pos(training.weight)

\* The sign rule of the running calories, with the value claimed for
\* RUN [15000, 1, 75].
RunningCaloriesSign(scenario2) ==
    RunningReported =>
        LET x == Mul(Num(18), info.speed)
        IN  /\ info.calories =
                  Mul(Div(Mul(Sub(x, Num(20)), training.weight), Num(1000)),
                      Mul(training.duration_hours, Num(60)))
            /\ Less(info.calories, Zero) <=> Less(x, Num(20))
            /\ (info.calories = Zero) <=> (x = Num(20))
            /\ Pos(info.calories) <=> Less(Num(20), x)
            /\ training.action = Zero => Less(info.calories, Zero)
            /\ training = Scenario2 => info.calories = scenario2

\* C10 (as claimed): Running calories with weight > 0 and duration > 0 are
\* (18 * speed - 20) * weight / 1000 * duration_hours * 60: negative
\* exactly when 18 * speed < 20 (so for action = 0), zero exactly when
\* 18 * speed = 20, positive otherwise, never clamped; RUN [15000, 1, 75]
\* gives 701.55.
C10_RunningSign701 == RunningCaloriesSign(Rat(70155, 100))

\* C10 (amended): the same, and RUN [15000, 1, 75] gives 699.75.
C10_RunningSign699 == RunningCaloriesSign(Rat(69975, 100))

\* A slow run was reported and its line shows negative calories.
C10_Witness ==
    /\ RunningReported
    /\ Less(Zero, training.action)
    /\ Less(info.calories, Zero)
    /\ output[i - 1].calories < 0

===========================================================================
